---- MODULE Spec2Model ----
(***************************************************************************)
(* Model of the MSK bridge of src/agent.py: the consumer's deserializer,   *)
(* the content extraction of main()'s loop body, the dispatch loop with    *)
(* its per-message and fatal error scopes, and the shutdown sequence;      *)
(* of create_ssl_context and AWSTokenProvider as start() uses them; and of *)
(* get_settings and deep_merge of src/src/mcp_agent/config.py              *)
(* (SettingsSpec, MergeSpec).                                              *)
(*                                                                         *)
(* Texts (the characters of a Python str or of a bytes payload) are        *)
(* sequences of lexemes.  A lexeme is a punctuation mark, a bare word or   *)
(* a quoted string literal that holds the text between its quotes.         *)
(* Python values are records tagged by k: none, int, str, list, dict.      *)
(* A dict keeps its items in insertion order, as Python does.              *)
(***************************************************************************)
EXTENDS Integers, Sequences, FiniteSets, TLC

\* ------------------------------------------------------------------ bounds
\* Messages the broker delivers in one run of main().
MaxMsgs == 2

\* ------------------------------------------------------------------- texts
Lex(a) == [lx |-> a, in |-> <<>>]
Quote(t) == [lx |-> "quote", in |-> t]
Word(a) == <<Lex(a)>>

\* ----------------------------------------------------------- Python values
PyNone == [k |-> "none"]
PyInt(n) == [k |-> "int", n |-> n]
PyStr(t) == [k |-> "str", s |-> t]
PyList(items) == [k |-> "list", items |-> items]
PyDict(items) == [k |-> "dict", items |-> items]
Item(key, val) == [key |-> key, val |-> val]

\* bool(v): the truth value Python gives v in `if v` / `not v`.
Truthy(v) ==
  CASE v.k = "none" -> FALSE
    [] v.k = "int" -> v.n # 0
    [] v.k = "str" -> v.s # <<>>
    [] v.k = "list" -> v.items # <<>>
    [] v.k = "dict" -> v.items # <<>>

\* key in d
DictHas(d, key) == \E i \in 1..Len(d.items) : d.items[i].key = key

\* d.get(key): the value under key, None when the key is missing.
DictGet(d, key) ==
  IF DictHas(d, key)
  THEN d.items[CHOOSE i \in 1..Len(d.items) : d.items[i].key = key].val
  ELSE PyNone

\* d[key] = val on the item list: a repeated key keeps its place and takes
\* the later value.
DictPut(items, key, val) ==
  IF \E i \in 1..Len(items) : items[i].key = key
  THEN [i \in 1..Len(items) |->
          IF items[i].key = key THEN Item(key, val) ELSE items[i]]
  ELSE Append(items, Item(key, val))

\* -------------------------------------------------------------- json.dumps
RECURSIVE JsonDumps(_)
RECURSIVE DumpItems(_)
RECURSIVE DumpMembers(_)

DumpItems(items) ==
  IF items = <<>> THEN <<>>
  ELSE IF Len(items) = 1 THEN JsonDumps(items[1])
  ELSE JsonDumps(items[1]) \o <<Lex(",")>> \o DumpItems(Tail(items))

DumpMembers(items) ==
  IF items = <<>> THEN <<>>
  ELSE LET m == <<Quote(items[1].key), Lex(":")>> \o JsonDumps(items[1].val)
       IN IF Len(items) = 1 THEN m
          ELSE m \o <<Lex(",")>> \o DumpMembers(Tail(items))

\* json.dumps(v): the JSON text of a value.
JsonDumps(v) ==
  CASE v.k = "none" -> Word("null")
    [] v.k = "int" -> IF v.n = 0 THEN Word("0") ELSE Word("7")
    [] v.k = "str" -> <<Quote(v.s)>>
    [] v.k = "list" -> <<Lex("[")>> \o DumpItems(v.items) \o <<Lex("]")>>
    [] v.k = "dict" -> <<Lex("{")>> \o DumpMembers(v.items) \o <<Lex("}")>>

\* -------------------------------------------------------------- json.loads
Parsed(v) == [ok |-> TRUE, v |-> v]
ParseError == [ok |-> FALSE, v |-> PyNone]

IsScalar(x) == x.lx \in {"quote", "null", "0", "7"}

ScalarValue(x) ==
  CASE x.lx = "quote" -> PyStr(x.in)
    [] x.lx = "null" -> PyNone
    [] x.lx = "0" -> PyInt(0)
    [] x.lx = "7" -> PyInt(7)

\* The elements between [ and ]: scalars separated by commas.
RECURSIVE ParseItems(_, _)
ParseItems(t, acc) ==
  IF t = <<>> \/ ~IsScalar(t[1]) THEN ParseError
  ELSE LET got == Append(acc, ScalarValue(t[1]))
       IN IF Len(t) = 1 THEN Parsed(PyList(got))
          ELSE IF t[2].lx = "," THEN ParseItems(SubSeq(t, 3, Len(t)), got)
          ELSE ParseError

\* The members between { and }: "key": scalar, separated by commas.
RECURSIVE ParseMembers(_, _)
ParseMembers(t, acc) ==
  IF Len(t) < 3 \/ t[1].lx # "quote" \/ t[2].lx # ":" \/ ~IsScalar(t[3])
  THEN ParseError
  ELSE LET got == DictPut(acc, t[1].in, ScalarValue(t[3]))
       IN IF Len(t) = 3 THEN Parsed(PyDict(got))
          ELSE IF t[4].lx = "," THEN ParseMembers(SubSeq(t, 5, Len(t)), got)
          ELSE ParseError

\* json.loads(t): the value of a JSON text, or the JSONDecodeError.  Arrays
\* and objects hold scalars (strings, null, numbers).
JsonLoads(t) ==
  IF t = <<>> THEN ParseError
  ELSE IF Len(t) = 1
       THEN IF IsScalar(t[1]) THEN Parsed(ScalarValue(t[1])) ELSE ParseError
  ELSE IF t[1].lx = "[" /\ t[Len(t)].lx = "]"
       THEN IF Len(t) = 2 THEN Parsed(PyList(<<>>))
            ELSE ParseItems(SubSeq(t, 2, Len(t) - 1), <<>>)
  ELSE IF t[1].lx = "{" /\ t[Len(t)].lx = "}"
       THEN IF Len(t) = 2 THEN Parsed(PyDict(<<>>))
            ELSE ParseMembers(SubSeq(t, 2, Len(t) - 1), <<>>)
  ELSE ParseError

\* Mutant of Deserialize: the guard for an empty payload is dropped.
DeserializeNoGuard(m) == JsonLoads(m)

\* --------------------------------------------------- the consumer's decoder
\* value_deserializer: json.loads(m.decode('utf-8')) if m else None.  The
\* consumer applies it while it delivers the next message.
Deserialize(m) == IF m = <<>> THEN Parsed(PyNone) ELSE JsonLoads(m)

\* ------------------------------------------------------ content extraction
KeyType == Word("type")
KeyContent == Word("content")
StrUserMessage == PyStr(Word("user_message"))
StrUser == PyStr(Word("user"))

Extracted(c) == [raised |-> FALSE, content |-> c]
ExtractRaised == [raised |-> TRUE, content |-> PyNone]

\* Mutant of ExtractDict: the elif for type 'user' is dropped.
ExtractDictUserMessageOnly(v) ==
  IF DictGet(v, KeyType) = StrUserMessage /\ DictHas(v, KeyContent)
  THEN Extracted(DictGet(v, KeyContent))
  ELSE Extracted(PyNone)

\* Mutant of ExtractDict: the type tag is not looked at.
ExtractDictAnyType(v) ==
  IF DictHas(v, KeyContent)
  THEN Extracted(DictGet(v, KeyContent))
  ELSE Extracted(PyNone)

\* The dict branch: type == 'user_message' or type == 'user', with a
\* content key; user_content stays None otherwise.
ExtractDict(v) ==
  IF DictGet(v, KeyType) = StrUserMessage /\ DictHas(v, KeyContent)
  THEN Extracted(DictGet(v, KeyContent))
  ELSE IF DictGet(v, KeyType) = StrUser /\ DictHas(v, KeyContent)
  THEN Extracted(DictGet(v, KeyContent))
  ELSE Extracted(PyNone)

\* Mutant of ExtractStr: the text is never parsed.
ExtractStrVerbatim(v) == Extracted(v)

\* Mutant of ExtractStr: a JSONDecodeError leaves user_content at None.
ExtractStrNoFallback(v) ==
  LET r == JsonLoads(v.s)
  IN IF ~r.ok THEN Extracted(PyNone)
     ELSE IF r.v.k # "dict" THEN ExtractRaised
     ELSE IF DictGet(r.v, KeyType) \in {StrUserMessage, StrUser}
             /\ DictHas(r.v, KeyContent)
          THEN Extracted(DictGet(r.v, KeyContent))
          ELSE Extracted(v)

\* Mutant of ExtractStr: a parsed dict goes through the dict branch's rules.
ExtractStrRecursive(v) ==
  LET r == JsonLoads(v.s)
  IN IF ~r.ok THEN Extracted(v)
     ELSE IF r.v.k # "dict" THEN ExtractRaised
     ELSE ExtractDict(r.v)

\* The str branch: json.loads, then data_obj.get (an AttributeError when
\* data_obj is no dict); the text itself on a JSONDecodeError or when the
\* parsed object is no recognized envelope.
ExtractStr(v) ==
  LET r == JsonLoads(v.s)
  IN IF ~r.ok THEN Extracted(v)
     ELSE IF r.v.k # "dict" THEN ExtractRaised
     ELSE IF DictGet(r.v, KeyType) \in {StrUserMessage, StrUser}
             /\ DictHas(r.v, KeyContent)
          THEN Extracted(DictGet(r.v, KeyContent))
          ELSE Extracted(v)

\* user_content of a message value, or the error the extraction raises.
Extract(v) ==
  IF v.k = "dict" THEN ExtractDict(v)
  ELSE IF v.k = "str" THEN ExtractStr(v)
  ELSE Extracted(PyNone)

\* ------------------------------------------------------------------ inputs
Missing == [k |-> "missing"]
Hi == PyStr(Word("hi"))

\* A dict with a type entry (none for "missing") and a content entry (none
\* for Missing), in this order.
Envelope(ty, c) ==
  PyDict((IF ty = "missing" THEN <<>> ELSE <<Item(KeyType, PyStr(Word(ty)))>>)
         \o (IF c = Missing THEN <<>> ELSE <<Item(KeyContent, c)>>))

Envelopes ==
  {Envelope("user_message", Hi), Envelope("user", Hi),
   Envelope("user", PyStr(<<>>)), Envelope("user", Missing),
   Envelope("system", Hi), Envelope("missing", Hi),
   Envelope("missing", Missing)}

\* The texts a str value holds: bare text, the empty text, JSON objects and
\* JSON that is no object.
Texts ==
  {Word("hello"), <<Lex("{"), Lex("hi")>>, <<>>,
   JsonDumps(Envelope("user", Hi)),
   JsonDumps(Envelope("user_message", PyStr(<<>>))),
   JsonDumps(Envelope("system", Hi)),
   JsonDumps(PyInt(7))}

Values ==
  Envelopes \cup {PyStr(t) : t \in Texts} \cup {PyNone, PyInt(7), PyList(<<>>)}

\* The payloads the broker delivers: the serialized values, the empty
\* payload, and bytes that are no JSON.
Payloads == {JsonDumps(v) : v \in Values} \cup {<<>>, Word("hello")}

\* ------------------------------------------------------------------- state
VARIABLES
  pc,             \* where main() is (start_consumer, start_producer: suspended
                  \* in the await of start(); exit_run: in the await of the
                  \* exit of fast.run())
  consumer,       \* "unstarted", "started", "stopped", "failed"
  producer,       \* the same for the producer
  consumerStops,  \* calls of consumer.stop()
  producerStops,  \* calls of producer.stop()
  delivered,      \* the payloads the consumer was asked to deliver, in order
  decoded,        \* what the value_deserializer made of each of them
  entered,        \* messages that reached the loop body
  invoked,        \* the agent invocations: [idx, arg], in order
  caught,         \* messages whose processing ended in the inner except
  inflight,       \* agent invocations that have not returned or raised
  pending,        \* the exception the finally block re-raises, or "none"
  loopEnd,        \* why the loop ended, or "none"
  active,         \* handles started and not stopped: [consumer, producer]
  published,      \* what was handed to the producer for publishing, in order
  logged,         \* messages whose agent response was logged
  runtime,        \* the context of fast.run(): "unstarted", "running",
                  \* "failed" (its entry raised), "exited", "exit_failed"
                  \* (its exit raised or was cancelled)
  \* connection setup: create_ssl_context() and AWSTokenProvider.token()
  contexts,       \* the SSL contexts create_ssl_context() has returned
  tokenCalls,     \* the calls of token(): [by, phase, signed, outcome, result];
                  \* phase "returned": the call has ended
  signerCalls,    \* calls of MSKAuthTokenProvider.generate_auth_token
  \* mcp_agent.config.get_settings
  settingsCache,  \* the module global _settings
  nextId,         \* identity of the next Settings object
  getCalls,       \* the calls of get_settings(), in order
  \* get_settings.deep_merge on dict objects
  heap,           \* the dict objects: object id -> its items; a nested dict
                  \* is held by reference
  mergeCalls      \* the calls of deep_merge: [base, update, ref, before]

mainVars == <<pc, consumer, producer, consumerStops, producerStops, delivered,
              decoded, entered, invoked, caught, inflight, pending, loopEnd,
              active, published, logged, runtime>>
tokenVars == <<tokenCalls, signerCalls>>
setupVars == <<contexts, tokenVars>>
cacheVars == <<settingsCache, nextId, getCalls>>
mergeVars == <<heap, mergeCalls>>
settingsVars == <<cacheVars, mergeVars>>
vars == <<mainVars, setupVars, settingsVars>>

\* What main() leaves alone once the consumer and the producer are created:
\* the setup and settings state, and the producer's publishing side.
outside == <<setupVars, settingsVars, published>>

conn == <<consumer, producer, consumerStops, producerStops, active>>
msgs == <<delivered, decoded, entered, invoked, caught, inflight>>

\* _settings = None
NoSettings == [id |-> 0, fields |-> PyNone]

SetupInit ==
  /\ contexts = <<>>
  /\ tokenCalls = <<>>
  /\ signerCalls = 0

SettingsInit ==
  /\ settingsCache = NoSettings
  /\ nextId = 1
  /\ getCalls = <<>>
  /\ heap = <<>>
  /\ mergeCalls = <<>>

MainInit ==
  /\ pc = "create_consumer"
  /\ consumer = "unstarted"
  /\ producer = "unstarted"
  /\ consumerStops = 0
  /\ producerStops = 0
  /\ delivered = <<>>
  /\ decoded = <<>>
  /\ entered = {}
  /\ invoked = <<>>
  /\ caught = {}
  /\ inflight = 0
  /\ pending = "none"
  /\ loopEnd = "none"
  /\ active = [consumer |-> 0, producer |-> 0]
  /\ published = <<>>
  /\ logged = {}
  /\ runtime = "unstarted"

Init == MainInit /\ SetupInit /\ SettingsInit

\* The message the loop is at, and message.value of message k.
Cur == Len(delivered)
ValueOf(k) == decoded[k].v

\* ------------------------------------------------------ create_ssl_context
\* The protocol versions, oldest first.
Versions == <<"SSLv2", "SSLv3", "TLSv1", "TLSv1_1", "TLSv1_2", "TLSv1_3">>
VersionRank(ver) == CHOOSE i \in 1..Len(Versions) : Versions[i] = ver
NoFlag == [SSLv2 |-> "OP_NO_SSLv2", SSLv3 |-> "OP_NO_SSLv3",
           TLSv1 |-> "OP_NO_TLSv1", TLSv1_1 |-> "OP_NO_TLSv1_1",
           TLSv1_2 |-> "OP_NO_TLSv1_2", TLSv1_3 |-> "OP_NO_TLSv1_3"]

\* ssl.SSLContext(ssl.PROTOCOL_TLS_CLIENT): the interpreter's defaults for a
\* client context (minimum version TLS 1.2, hostname check on, certificate
\* required, no certificates loaded).
NewClientContext ==
  [minimum_version |-> "TLSv1_2",
   options |-> {"OP_ALL", "OP_NO_SSLv3", "OP_NO_COMPRESSION"},
   check_hostname |-> TRUE,
   verify_mode |-> "CERT_REQUIRED",
   default_certs |-> FALSE,
   error |-> "none"]

\* ctx.options |= ssl.OP_NO_SSLv2 | ssl.OP_NO_SSLv3
SetOptions(ctx) ==
  [ctx EXCEPT !.options = @ \cup {"OP_NO_SSLv2", "OP_NO_SSLv3"}]

\* ctx.check_hostname = False
SetCheckHostname(ctx) == [ctx EXCEPT !.check_hostname = FALSE]

\* Mutant of SetVerifyMode: the assignment is missing.
SetVerifyModeSkipped(ctx) == ctx

\* ctx.verify_mode = ssl.CERT_NONE, a ValueError while check_hostname is on.
SetVerifyMode(ctx) ==
  IF ctx.check_hostname
  THEN [ctx EXCEPT !.error = "ValueError"]
  ELSE [ctx EXCEPT !.verify_mode = "CERT_NONE"]

\* ctx.load_default_certs()
LoadDefaultCerts(ctx) ==
  IF ctx.error # "none" THEN ctx ELSE [ctx EXCEPT !.default_certs = TRUE]

\* create_ssl_context()
CreateSslContext ==
  LoadDefaultCerts(SetVerifyMode(SetCheckHostname(SetOptions(NewClientContext))))

\* The protocol versions a context accepts.
Permitted(ctx) ==
  {Versions[i] : i \in {j \in 1..Len(Versions) :
       /\ j >= VersionRank(ctx.minimum_version)
       /\ NoFlag[Versions[j]] \notin ctx.options}}

\* -------------------------------------------------------- AWSTokenProvider
\* Calls of token() a client makes on the providers, taken on their own.
MaxTokenCalls == 3

\* What MSKAuthTokenProvider.generate_auth_token gives: the token of that
\* run of the signer, or an error.
NoToken == [t |-> "none", n |-> 0]
Token(n) == [t |-> "token", n |-> n]
SignerError == [t |-> "error", n |-> 0]

\* asyncio.CancelledError, raised by the await of token() when the task that
\* awaits it is cancelled.
Cancelled == [t |-> "cancelled", n |-> 0]

\* main() is suspended in consumer.start() or producer.start(); the client
\* being started holds the provider created for it.
Starting == pc \in {"start_consumer", "start_producer"}
Provider == IF pc = "start_consumer" THEN "consumer" ELSE "producer"

\* Every call of token() so far has returned or raised.
TokensSettled ==
  \A i \in 1..Len(tokenCalls) : tokenCalls[i].phase = "returned"

\* A call of token() on the provider who, as it begins: _generate_token is
\* handed to the executor and awaited.
NewCall(who) ==
  [by |-> who, phase |-> "in_executor", signed |-> 0, outcome |-> NoToken,
   result |-> NoToken]

\* token() called by the handshake of the connection that start() opens: the
\* client being started asks the provider it was built with.
TokenCalled ==
  /\ Starting
  /\ \A i \in 1..Len(tokenCalls) : tokenCalls[i].by # Provider
  /\ tokenCalls' = Append(tokenCalls, NewCall(Provider))
  /\ UNCHANGED <<contexts, signerCalls, mainVars, settingsVars>>

\* token() called on a provider by any client, at any time and while other
\* calls are under way.
ProviderCalled ==
  /\ Len(tokenCalls) < MaxTokenCalls
  /\ \E who \in {"consumer", "producer"} :
       tokenCalls' = Append(tokenCalls, NewCall(who))
  /\ UNCHANGED <<contexts, signerCalls, mainVars, settingsVars>>

\* _generate_token() of call i runs in the executor: one call of the
\* regional signer.  When the call was cancelled before the run began, the
\* run may still take place (it had been picked up by a worker thread); its
\* result is then dropped.
SignerRuns(i) ==
  /\ tokenCalls[i].signed = 0
  /\ \/ tokenCalls[i].phase = "in_executor"
     \/ tokenCalls[i].phase = "returned" /\ tokenCalls[i].result = Cancelled
  /\ \E o \in {Token(signerCalls + 1), SignerError} :
       tokenCalls' = [tokenCalls EXCEPT ![i] =
                        [@ EXCEPT !.phase = IF @ = "in_executor" THEN "signed" ELSE @,
                                  !.signed = @ + 1,
                                  !.outcome = o]]
  /\ signerCalls' = signerCalls + 1
  /\ UNCHANGED <<contexts, mainVars, settingsVars>>

\* Mutant of TokenResult: the first token obtained is kept and handed out.
TokenResultCached(i, cancel) ==
  IF cancel THEN Cancelled
  ELSE IF \E j \in 1..(i - 1) : tokenCalls[j].result.t = "token"
  THEN tokenCalls[CHOOSE j \in 1..(i - 1) :
                    tokenCalls[j].result.t = "token"].result
  ELSE tokenCalls[i].outcome

\* return await loop.run_in_executor(...): the signer's token or its error,
\* or CancelledError when the awaiting task is cancelled.
TokenResult(i, cancel) ==
  IF cancel THEN Cancelled ELSE tokenCalls[i].outcome

\* token() of call i ends: it returns or raises what the signer gave, or the
\* task that awaits it is cancelled, before or after the signer ran.
TokenReturns(i) ==
  /\ \E cancel \in BOOLEAN :
       /\ IF cancel THEN tokenCalls[i].phase \in {"in_executor", "signed"}
          ELSE tokenCalls[i].phase = "signed"
       /\ tokenCalls' = [tokenCalls EXCEPT ![i] =
                           [@ EXCEPT !.phase = "returned",
                                     !.result = TokenResult(i, cancel)]]
  /\ UNCHANGED <<contexts, signerCalls, mainVars, settingsVars>>

\* start() can return once the handshake of its client got a token.
Authenticated(who) ==
  \E i \in 1..Len(tokenCalls) :
    tokenCalls[i].by = who /\ tokenCalls[i].result.t = "token"

\* The provider on its own: calls of token(), the signer runs and the
\* returns of those calls.
SetupNext ==
  \/ ProviderCalled
  \/ \E i \in 1..Len(tokenCalls) : SignerRuns(i)
  \/ \E i \in 1..Len(tokenCalls) : TokenReturns(i)

SetupSpec == Init /\ [][SetupNext]_vars

\* ----------------------------------------------------------------- startup
\* create_consumer() up to its await: a provider and an SSL context are
\* made and the consumer is built with them.
CreateConsumer ==
  /\ pc = "create_consumer"
  /\ contexts' = Append(contexts, CreateSslContext)
  /\ pc' = "start_consumer"
  /\ UNCHANGED <<conn, msgs, pending, loopEnd>>
  /\ UNCHANGED <<tokenVars, settingsVars, published, logged, runtime>>

\* Mutant of StartConsumer: a second consumer is started beside the first.
StartConsumerTwice ==
  /\ pc = "start_consumer"
  /\ TokensSettled
  /\ Authenticated("consumer")
  /\ consumer' = "started"
  /\ active' = [active EXCEPT !.consumer = @ + 2]
  /\ pc' = "create_producer"
  /\ UNCHANGED <<producer, consumerStops, producerStops, msgs, pending, loopEnd>>
  /\ UNCHANGED <<outside, logged, runtime>>

\* await consumer.start() returns or raises, and create_consumer() with it.
StartConsumer ==
  /\ pc = "start_consumer"
  /\ TokensSettled
  /\ \/ /\ Authenticated("consumer")
        /\ consumer' = "started"
        /\ active' = [active EXCEPT !.consumer = @ + 1]
        /\ pc' = "create_producer"
     \/ consumer' = "failed" /\ pc' = "raised" /\ UNCHANGED active
  /\ UNCHANGED <<producer, consumerStops, producerStops, msgs, pending, loopEnd>>
  /\ UNCHANGED <<outside, logged, runtime>>

\* create_producer() up to its await: a provider and an SSL context are
\* made and the producer is built with them.
CreateProducer ==
  /\ pc = "create_producer"
  /\ contexts' = Append(contexts, CreateSslContext)
  /\ pc' = "start_producer"
  /\ UNCHANGED <<conn, msgs, pending, loopEnd>>
  /\ UNCHANGED <<tokenVars, settingsVars, published, logged, runtime>>

\* Mutant of StartProducer: a failed start is logged and main() goes on.
StartProducerFailureIgnored ==
  /\ pc = "start_producer"
  /\ TokensSettled
  /\ pc' = "enter_run"
  /\ \/ /\ Authenticated("producer")
        /\ producer' = "started"
        /\ active' = [active EXCEPT !.producer = @ + 1]
     \/ producer' = "failed" /\ UNCHANGED active
  /\ UNCHANGED <<consumer, consumerStops, producerStops, msgs, pending, loopEnd>>
  /\ UNCHANGED <<outside, logged, runtime>>

\* await producer.start() returns or raises, and create_producer() with it.
StartProducer ==
  /\ pc = "start_producer"
  /\ TokensSettled
  /\ \/ /\ Authenticated("producer")
        /\ producer' = "started"
        /\ active' = [active EXCEPT !.producer = @ + 1]
        /\ pc' = "enter_run"
     \/ producer' = "failed" /\ pc' = "raised" /\ UNCHANGED active
  /\ UNCHANGED <<consumer, consumerStops, producerStops, msgs, pending, loopEnd>>
  /\ UNCHANGED <<outside, logged, runtime>>

\* async with fast.run() as agent: the runtime starts or raises.
EnterRun ==
  /\ pc = "enter_run"
  /\ \/ runtime' = "running" /\ pc' = "next_message"
     \/ runtime' = "failed" /\ pc' = "raised"
  /\ UNCHANGED <<conn, msgs, pending, loopEnd>>
  /\ UNCHANGED <<outside, logged>>

\* -------------------------------------------------------------------- loop
\* The loop leaves for the finally block.
EndLoop(why, exc) ==
  /\ pc' = "stop_consumer"
  /\ loopEnd' = why
  /\ pending' = exc

\* Mutant of CanPull: the invocation is not awaited before the next pull.
CanPullWhileInvoking == pc \in {"next_message", "invoke"}

\* async for is waiting for the next message.
CanPull == pc = "next_message"

\* async for message in consumer: the consumer delivers the next message,
\* decoded by its value_deserializer; a decoding error is raised here,
\* outside the inner try, and is the outer except's fatal error.
NextMessage ==
  /\ CanPull
  /\ Cur < MaxMsgs
  /\ \E m \in Payloads :
       /\ delivered' = Append(delivered, m)
       /\ decoded' = Append(decoded, Deserialize(m))
       /\ IF Deserialize(m).ok
          THEN /\ pc' = "body"
               /\ UNCHANGED <<pending, loopEnd>>
          ELSE EndLoop("bad_message", "none")
  /\ UNCHANGED <<conn, entered, invoked, caught, inflight>>
  /\ UNCHANGED <<outside, logged, runtime>>

\* Mutant of WaitEnds: no outer except Exception, the consumer's error goes
\* on through the finally block.
WaitEndsErrorEscapes ==
  /\ pc = "next_message"
  /\ \/ EndLoop("exhausted", "none")
     \/ EndLoop("consumer_error", "error")
     \/ EndLoop("interrupt_wait", "none")
     \/ EndLoop("cancel_wait", "cancel")
  /\ UNCHANGED <<conn, msgs>>
  /\ UNCHANGED <<outside, logged, runtime>>

\* async for ends otherwise: the stream ends, the consumer raises, or the
\* wait is interrupted (KeyboardInterrupt) or cancelled (CancelledError, which
\* no except clause of main() takes and the finally block lets through).
WaitEnds ==
  /\ pc = "next_message"
  /\ \/ EndLoop("exhausted", "none")
     \/ EndLoop("consumer_error", "none")
     \/ EndLoop("interrupt_wait", "none")
     \/ EndLoop("cancel_wait", "cancel")
  /\ UNCHANGED <<conn, msgs>>
  /\ UNCHANGED <<outside, logged, runtime>>

\* if user_content:
ShouldInvoke(c) == Truthy(c)

\* The loop body up to the await of the agent: skip an empty value, extract
\* the content, start the invocation when there is content; an error raised
\* by the extraction is the inner except's.
Body ==
  /\ pc = "body"
  /\ entered' = entered \cup {Cur}
  /\ LET value == ValueOf(Cur)
     IN IF ~Truthy(value)
        THEN /\ pc' = "next_message"
             /\ UNCHANGED <<invoked, caught, inflight>>
        ELSE IF Extract(value).raised
        THEN /\ pc' = "next_message"
             /\ caught' = caught \cup {Cur}
             /\ UNCHANGED <<invoked, inflight>>
        ELSE IF ShouldInvoke(Extract(value).content)
        THEN /\ pc' = "invoke"
             /\ invoked' = Append(invoked,
                                 [idx |-> Cur, arg |-> Extract(value).content])
             /\ inflight' = inflight + 1
             /\ UNCHANGED caught
        ELSE /\ pc' = "next_message"
             /\ UNCHANGED <<invoked, caught, inflight>>
  /\ UNCHANGED <<conn, delivered, decoded, pending, loopEnd>>
  /\ UNCHANGED <<outside, logged, runtime>>

\* Mutant of AgentReturns: the response is published on the producer too.
AgentReturnsPublishes ==
  /\ pc = "invoke"
  /\ inflight' = inflight - 1
  /\ pc' = "next_message"
  /\ logged' = logged \cup {Cur}
  /\ published' = Append(published, Cur)
  /\ UNCHANGED <<conn, delivered, decoded, entered, invoked, caught, pending, loopEnd>>
  /\ UNCHANGED <<setupVars, settingsVars, runtime>>

\* response = await agent.assistant(user_content) returns; it is logged.
AgentReturns ==
  /\ pc = "invoke"
  /\ inflight' = inflight - 1
  /\ pc' = "next_message"
  /\ logged' = logged \cup {Cur}
  /\ UNCHANGED <<conn, delivered, decoded, entered, invoked, caught, pending, loopEnd>>
  /\ UNCHANGED <<outside, runtime>>

\* Mutant of AgentRaises: the inner except logs the error and leaves the loop.
AgentRaisesEndsLoop ==
  /\ pc = "invoke"
  /\ inflight' = inflight - 1
  /\ caught' = caught \cup {Cur}
  /\ EndLoop("message_error", "none")
  /\ UNCHANGED <<conn, delivered, decoded, entered, invoked>>
  /\ UNCHANGED <<outside, logged, runtime>>

\* The invocation raises an Exception: the inner except logs it and the loop
\* goes on.
AgentRaises ==
  /\ pc = "invoke"
  /\ inflight' = inflight - 1
  /\ caught' = caught \cup {Cur}
  /\ pc' = "next_message"
  /\ UNCHANGED <<conn, delivered, decoded, entered, invoked, pending, loopEnd>>
  /\ UNCHANGED <<outside, logged, runtime>>

\* Mutant of AgentInterrupted: the inner except takes BaseException, so the
\* interrupt is logged as a message error and the loop goes on.
AgentInterruptAbsorbed ==
  /\ pc = "invoke"
  /\ inflight' = inflight - 1
  /\ caught' = caught \cup {Cur}
  /\ pc' = "next_message"
  /\ loopEnd' \in {"interrupt_invoke", "cancel_invoke"}
  /\ UNCHANGED <<conn, delivered, decoded, entered, invoked, pending>>
  /\ UNCHANGED <<outside, logged, runtime>>

\* The invocation is interrupted or cancelled: no Exception, so the inner
\* except lets it through.
AgentInterrupted ==
  /\ pc = "invoke"
  /\ inflight' = inflight - 1
  /\ \/ EndLoop("interrupt_invoke", "none")
     \/ EndLoop("cancel_invoke", "cancel")
  /\ UNCHANGED <<conn, delivered, decoded, entered, invoked, caught>>
  /\ UNCHANGED <<outside, logged, runtime>>

\* ---------------------------------------------------------------- shutdown
\* A stop() call raised.
StopFailed ==
  \/ consumerStops = 1 /\ consumer # "stopped"
  \/ producerStops = 1 /\ producer # "stopped"

\* finally: await consumer.stop(); an error it raises leaves the block, and
\* the with statement, without producer.stop().
StopConsumer ==
  /\ pc = "stop_consumer"
  /\ consumerStops' = consumerStops + 1
  /\ \/ /\ consumer' = "stopped"
        /\ active' = [active EXCEPT !.consumer = @ - 1]
        /\ pc' = "stop_producer"
     \/ consumer' = consumer /\ pc' = "exit_run" /\ UNCHANGED active
  /\ UNCHANGED <<producer, producerStops, msgs, pending, loopEnd>>
  /\ UNCHANGED <<outside, logged, runtime>>

\* await producer.stop(): it returns or raises; either way the block of the
\* with statement is left.
StopProducer ==
  /\ pc = "stop_producer"
  /\ producerStops' = producerStops + 1
  /\ \/ /\ producer' = "stopped"
        /\ active' = [active EXCEPT !.producer = @ - 1]
     \/ producer' = producer /\ UNCHANGED active
  /\ pc' = "exit_run"
  /\ UNCHANGED <<consumer, consumerStops, msgs, pending, loopEnd>>
  /\ UNCHANGED <<outside, logged, runtime>>

\* The exit of `async with fast.run()`, awaited when the block is left: it
\* returns, raises, or main() is cancelled while it waits.  main() returns
\* when the exit returned and no exception was on its way (the one the
\* finally block re-raises, or a stop() call's), and raises otherwise.
ExitRun ==
  /\ pc = "exit_run"
  /\ runtime' \in {"exited", "exit_failed"}
  /\ pc' = IF runtime' = "exited" /\ pending = "none" /\ ~StopFailed
           THEN "returned" ELSE "raised"
  /\ UNCHANGED <<conn, msgs, pending, loopEnd>>
  /\ UNCHANGED <<outside, logged>>

Next ==
  \/ CreateConsumer
  \/ TokenCalled
  \/ \E i \in 1..Len(tokenCalls) : SignerRuns(i)
  \/ \E i \in 1..Len(tokenCalls) : TokenReturns(i)
  \/ StartConsumer
  \/ CreateProducer
  \/ StartProducer
  \/ EnterRun
  \/ NextMessage
  \/ WaitEnds
  \/ Body
  \/ AgentReturns
  \/ AgentRaises
  \/ AgentInterrupted
  \/ StopConsumer
  \/ StopProducer
  \/ ExitRun

Spec == Init /\ [][Next]_vars

\* The event loop goes on running main() through its finally block: each
\* awaited stop() returns or raises.
FairSpec == Spec /\ WF_vars(StopConsumer) /\ WF_vars(StopProducer)

\* ------------------------------------------------- config.py: get_settings
\* Calls of get_settings in one process.
MaxCalls == 3

RECURSIVE deep_merge(_, _)
RECURSIVE MergeItems(_, _)

\* The loop of deep_merge over update.items(), on the item list of merged.
MergeItems(merged, update) ==
  IF update = <<>> THEN merged
  ELSE LET key == update[1].key
           value == update[1].val
           old == DictGet(PyDict(merged), key)
       IN MergeItems(
            DictPut(merged, key,
                    IF DictHas(PyDict(merged), key) /\ old.k = "dict" /\ value.k = "dict"
                    THEN deep_merge(old, value)
                    ELSE value),
            Tail(update))

\* deep_merge(base, update)
deep_merge(base, update) == PyDict(MergeItems(base.items, update.items))

\* A reference to the dict object id.
Ref(id) == [k |-> "ref", id |-> id]

RECURSIVE Alloc(_, _)
RECURSIVE AllocItems(_, _)
RECURSIVE Deref(_, _)
RECURSIVE HeapMerge(_, _, _)
RECURSIVE HeapMergeItems(_, _, _)

\* The items of a dict value placed on the heap h: nested dicts become
\* objects of their own.
AllocItems(h, items) ==
  IF items = <<>> THEN [heap |-> h, items |-> <<>>]
  ELSE LET first == IF items[1].val.k = "dict"
                    THEN Alloc(h, items[1].val)
                    ELSE [heap |-> h, ref |-> 0]
           rest == AllocItems(first.heap, Tail(items))
       IN [heap |-> rest.heap,
           items |-> <<Item(items[1].key,
                            IF items[1].val.k = "dict" THEN Ref(first.ref)
                            ELSE items[1].val)>> \o rest.items]

\* The dict value v as a new object of the heap h.
Alloc(h, v) ==
  LET r == AllocItems(h, v.items)
  IN [heap |-> Append(r.heap, r.items), ref |-> Len(r.heap) + 1]

\* The value of the dict object id.
Deref(h, id) ==
  PyDict([i \in 1..Len(h[id]) |->
            Item(h[id][i].key,
                 IF h[id][i].val.k = "ref" THEN Deref(h, h[id][i].val.id)
                 ELSE h[id][i].val)])

\* for key, value in update.items(): ... on the object merged.
HeapMergeItems(h, merged, update) ==
  IF update = <<>> THEN h
  ELSE LET key == update[1].key
           value == update[1].val
           old == DictGet(PyDict(h[merged]), key)
       IN IF DictHas(PyDict(h[merged]), key) /\ old.k = "ref" /\ value.k = "ref"
          THEN LET r == HeapMerge(h, old.id, value.id)
               IN HeapMergeItems(
                    [r.heap EXCEPT ![merged] = DictPut(@, key, Ref(r.ref))],
                    merged, Tail(update))
          ELSE HeapMergeItems([h EXCEPT ![merged] = DictPut(@, key, value)],
                              merged, Tail(update))

\* Mutant of HeapMerge: merged = base, with no copy.
HeapMergeInPlace(h, base, update) ==
  [heap |-> HeapMergeItems(h, base, h[update]), ref |-> base]

\* deep_merge(base, update) on objects: merged = base.copy(), the loop over
\* update.items(), return merged.
HeapMerge(h, base, update) ==
  [heap |-> HeapMergeItems(Append(h, h[base]), Len(h) + 1, h[update]),
   ref |-> Len(h) + 1]

\* deep_merge(b, u) called on two dicts just built (the results of
\* yaml.safe_load): the heap afterwards and the record of the call.
MergeOnHeap(h, b, u) ==
  LET ab == Alloc(h, b)
      au == Alloc(ab.heap, u)
      r == HeapMerge(au.heap, ab.ref, au.ref)
  IN [heap |-> r.heap,
      call |-> [base |-> ab.ref, update |-> au.ref, ref |-> r.ref,
                before |-> au.heap]]

\* Configurations: what a caller passes as json_config and what
\* yaml.safe_load gives for a file.
KeyDefaultModel == Word("default_model")
KeyOpenai == Word("openai")
CfgEmpty == PyDict(<<>>)
CfgModel == PyDict(<<Item(KeyDefaultModel, PyStr(Word("sonnet")))>>)
CfgOpenai ==
  PyDict(<<Item(KeyOpenai, PyDict(<<Item(Word("base_url"), PyStr(Word("u")))>>))>>)
CfgBad == PyDict(<<Item(KeyDefaultModel, PyInt(7))>>)
CfgSecrets ==
  PyDict(<<Item(KeyOpenai, PyDict(<<Item(Word("api_key"), PyStr(Word("k")))>>))>>)

\* Settings(**cfg) validates: default_model is a str or None.  Other keys
\* are accepted (extra="allow").
Valid(cfg) ==
  DictHas(cfg, KeyDefaultModel)
    => DictGet(cfg, KeyDefaultModel).k \in {"str", "none"}

\* A Settings object: its identity and the configuration it was built from.
NewSettings(id, cfg) == [id |-> id, fields |-> cfg]

\* The result of one call: the cache it leaves, the object it returns (id 0
\* when it raises) and whether it raised.
Outcome(cache, result, raised) ==
  [cache |-> cache, result |-> result, raised |-> raised]

\* Mutant of JsonBranch: the settings built from json_config are cached.
JsonBranchCached(json_config, cache, id) ==
  IF Valid(json_config)
  THEN Outcome(NewSettings(id, json_config), NewSettings(id, json_config), FALSE)
  ELSE Outcome(cache, NoSettings, TRUE)

\* if json_config is not None: return Settings(**json_config)
JsonBranch(json_config, cache, id) ==
  IF Valid(json_config)
  THEN Outcome(cache, NewSettings(id, json_config), FALSE)
  ELSE Outcome(cache, NoSettings, TRUE)

\* Paths are texts of components and separators.
Sep == Lex("/")
RelPath == <<Lex("conf"), Sep, Lex("agent.yaml")>>
IsAbsolute(t) == t # <<>> /\ t[1] = Sep

\* config_path: None, the empty string, or a relative path.
ConfigPaths == {PyNone, PyStr(<<>>), PyStr(RelPath)}
JsonConfigs == {PyNone, CfgEmpty, CfgModel, CfgBad}

\* What a call finds on disk: whether config_path exists as given, whether
\* its file name exists in the working directory, whether find_config()
\* finds a file, what the configuration file holds and what the nearest
\* secrets file holds (Missing: there is none).
FileSystems ==
  [direct : BOOLEAN, by_name : BOOLEAN, found : BOOLEAN,
   yaml : {PyNone, CfgOpenai, CfgBad},
   secrets : {Missing, CfgSecrets}]

\* The file the call settles on: "exists", "missing" (a path was given and
\* no file is there) or "none" (no path and find_config() found nothing).
ConfigFile(config_path, fs) ==
  IF Truthy(config_path)
  THEN IF ~IsAbsolute(config_path.s) /\ ~fs.direct
       THEN (IF fs.by_name THEN "exists" ELSE "missing")
       ELSE (IF fs.direct THEN "exists" ELSE "missing")
  ELSE IF fs.found THEN "exists" ELSE "none"

\* yaml_settings and yaml_secrets of a call that reads the files.
YamlSettings(fs) == IF Truthy(fs.yaml) THEN fs.yaml ELSE CfgEmpty
YamlSecrets(fs) ==
  IF fs.secrets # Missing /\ Truthy(fs.secrets) THEN fs.secrets ELSE CfgEmpty

\* The configuration read from the file and the first secrets file:
\* deep_merge is called when a secrets file is found.
MergedSettings(fs) ==
  IF fs.secrets = Missing THEN YamlSettings(fs)
  ELSE LET m == MergeOnHeap(<<>>, YamlSettings(fs), YamlSecrets(fs))
       IN Deref(m.heap, m.call.ref)

\* The call reaches line 470: no json_config, no cached object to return, a
\* configuration file and a secrets file.
Merges(config_path, json_config, fs, cache) ==
  /\ json_config = PyNone
  /\ Truthy(config_path) \/ cache = NoSettings
  /\ ConfigFile(config_path, fs) = "exists"
  /\ fs.secrets # Missing

\* Mutant of FileBranch: a cached object is returned whatever the path.
FileBranchAlwaysCached(config_path, fs, cache, id) ==
  IF cache # NoSettings
  THEN Outcome(cache, cache, FALSE)
  ELSE IF ConfigFile(config_path, fs) = "exists"
       THEN IF Valid(MergedSettings(fs))
            THEN Outcome(NewSettings(id, MergedSettings(fs)),
                         NewSettings(id, MergedSettings(fs)), FALSE)
            ELSE Outcome(NoSettings, NoSettings, TRUE)
       ELSE Outcome(NewSettings(id, CfgEmpty), NewSettings(id, CfgEmpty), FALSE)

\* get_settings without json_config.
FileBranch(config_path, fs, cache, id) ==
  IF ~Truthy(config_path) /\ cache # NoSettings
  THEN Outcome(cache, cache, FALSE)
  ELSE IF ConfigFile(config_path, fs) = "exists"
       THEN IF Valid(MergedSettings(fs))
            THEN Outcome(NewSettings(id, MergedSettings(fs)),
                         NewSettings(id, MergedSettings(fs)), FALSE)
            ELSE Outcome(NoSettings, NoSettings, TRUE)
       ELSE Outcome(NewSettings(id, CfgEmpty), NewSettings(id, CfgEmpty), FALSE)

\* The disk as seen by a call: a call that returns at line 420 or line 429
\* never looks at it, a call with a path never runs find_config() and a call
\* without one never tests a given path.
NoDisk ==
  [direct |-> FALSE, by_name |-> FALSE, found |-> FALSE,
   yaml |-> PyNone, secrets |-> Missing]
Observed(config_path, json_config, cache) ==
  IF json_config # PyNone \/ (~Truthy(config_path) /\ cache # NoSettings)
  THEN {NoDisk}
  ELSE {fs \in FileSystems :
          IF Truthy(config_path) THEN ~fs.found
          ELSE ~fs.direct /\ ~fs.by_name}

\* get_settings(config_path, json_config)
GetSettings ==
  /\ Len(getCalls) < MaxCalls
  /\ \E config_path \in ConfigPaths, json_config \in JsonConfigs :
     \E fs \in Observed(config_path, json_config, settingsCache) :
       LET out == IF json_config # PyNone
                  THEN JsonBranch(json_config, settingsCache, nextId)
                  ELSE FileBranch(config_path, fs, settingsCache, nextId)
       IN /\ settingsCache' = out.cache
          /\ nextId' = IF out.result.id = nextId THEN nextId + 1 ELSE nextId
          /\ getCalls' = Append(getCalls,
                                [path |-> config_path, json |-> json_config,
                                 before |-> settingsCache, after |-> out.cache,
                                 result |-> out.result, raised |-> out.raised])
          /\ IF Merges(config_path, json_config, fs, settingsCache)
             THEN LET m == MergeOnHeap(heap, YamlSettings(fs), YamlSecrets(fs))
                  IN heap' = m.heap /\ mergeCalls' = Append(mergeCalls, m.call)
             ELSE UNCHANGED mergeVars
  /\ UNCHANGED <<mainVars, setupVars>>

SettingsSpec == Init /\ [][GetSettings]_vars

\* ------------------------------------- config.py: deep_merge on its own
\* The dicts deep_merge is called with: flat ones, ones that hold dicts
\* under the keys x and y, and ones that hold a dict in a dict.
KeyX == Word("x")
KeyY == Word("y")
Flat ==
  {PyDict(<<>>), PyDict(<<Item(KeyX, PyInt(1))>>), PyDict(<<Item(KeyX, PyInt(2))>>),
   PyDict(<<Item(KeyY, PyInt(2))>>),
   PyDict(<<Item(KeyX, PyInt(1)), Item(KeyY, PyInt(1))>>)}
Held == {PyInt(1), PyInt(2)} \cup Flat
Nested ==
  {PyDict(<<Item(KeyX, a)>>) : a \in Held}
  \cup {PyDict(<<Item(KeyX, a), Item(KeyY, b)>>) : a \in Flat, b \in Held}
  \cup {PyDict(<<Item(KeyY, a), Item(KeyX, b)>>) : a \in {PyInt(2)}, b \in Flat}
Deep ==
  {PyDict(<<Item(KeyX, PyDict(<<Item(KeyX, a), Item(KeyY, PyInt(1))>>))>>) : a \in Flat}
MergeInputs == Flat \cup Nested \cup Deep

\* deep_merge(base, update) called on two dicts just built.
DeepMergeCall ==
  /\ mergeCalls = <<>>
  /\ \E b \in MergeInputs, u \in MergeInputs :
       LET m == MergeOnHeap(heap, b, u)
       IN heap' = m.heap /\ mergeCalls' = <<m.call>>
  /\ UNCHANGED <<cacheVars, mainVars, setupVars>>

\* deep_merge(result, update): the same update merged into the result.
DeepMergeAgain ==
  /\ Len(mergeCalls) = 1
  /\ LET r == HeapMerge(heap, mergeCalls[1].ref, mergeCalls[1].update)
     IN /\ heap' = r.heap
        /\ mergeCalls' = Append(mergeCalls,
                                [base |-> mergeCalls[1].ref,
                                 update |-> mergeCalls[1].update,
                                 ref |-> r.ref, before |-> heap])
  /\ UNCHANGED <<cacheVars, mainVars, setupVars>>

MergeNext == DeepMergeCall \/ DeepMergeAgain

MergeSpec == Init /\ [][MergeNext]_vars

\* ------------------------------------------------------------------ claims
\* The invocations of the agent made for message k.
InvocationsOf(k) == {i \in 1..Len(invoked) : invoked[i].idx = k}
ArgsOf(k) == {invoked[i].arg : i \in InvocationsOf(k)}

\* The processing of message k has ended.
Done(k) == k \in entered /\ ~(k = Cur /\ pc = "invoke")

\* After message k the loop went back to waiting for the next message.
ResumedAfter(k) ==
  \/ k < Cur
  \/ pc = "next_message"
  \/ loopEnd \in {"exhausted", "consumer_error", "interrupt_wait", "cancel_wait"}

Recognized(d) == DictGet(d, KeyType) \in {StrUserMessage, StrUser}
NonEmptyStr(c) == c.k = "str" /\ c.s # <<>>
Exited == pc \in {"returned", "raised"}

\* C1: an ordinary error raised while message k is processed (by the
\* extraction or by the agent) is caught in that iteration: the step that
\* catches it leaves the loop waiting for the next message with nothing
\* pending, and every other processed message that carries content has its
\* agent invocation.
C1_FailureIsolation ==
  /\ [][caught' # caught =>
          pc' = "next_message" /\ loopEnd' = "none" /\ pending' = "none"]_vars
  /\ [](\A k \in caught : \A j \in entered \ {k} :
          (Done(j) /\ Truthy(ValueOf(j)) /\ ~Extract(ValueOf(j)).raised
             /\ Truthy(Extract(ValueOf(j)).content))
          => InvocationsOf(j) # {})

C1_Witness ==
  \E k \in caught : \E i \in 1..Len(invoked) :
    invoked[i].idx > k /\ pc = "next_message"

\* C2: once the loop has ended, consumer.stop() and producer.stop() are each
\* attempted exactly once before main() exits, also when the first stop
\* raises.
C2_BothStopsAttempted ==
  (Exited /\ loopEnd # "none") => (consumerStops = 1 /\ producerStops = 1)

\* C3: every handle that was started is stopped exactly once before main()
\* exits, on every exit path.
C3_StartedHandlesStopped ==
  Exited =>
    /\ consumer \in {"started", "stopped"} => consumerStops = 1
    /\ producer \in {"started", "stopped"} => producerStops = 1

\* C4: every delivered message reaches the loop body, and no malformed or
\* empty message ends the loop.
C4_MalformedSkipped ==
  /\ loopEnd # "bad_message"
  /\ \A k \in 1..Cur : k \in entered \/ (k = Cur /\ pc = "body")

\* C5: a dict message with type user_message or user and a non-empty content
\* string has exactly that content extracted, and the agent is invoked
\* exactly once, with that content.
C5_RecognizedDictContent ==
  \A k \in entered :
    LET v == ValueOf(k)
    IN (v.k = "dict" /\ Recognized(v) /\ DictHas(v, KeyContent)
          /\ NonEmptyStr(DictGet(v, KeyContent)))
       => /\ Extract(v) = Extracted(DictGet(v, KeyContent))
          /\ Cardinality(InvocationsOf(k)) = 1
          /\ ArgsOf(k) = {DictGet(v, KeyContent)}

C5_Witness ==
  \E k \in entered :
    /\ ValueOf(k) = Envelope("user", Hi)
    /\ ArgsOf(k) = {Hi}
    /\ Done(k)

\* C6: a dict message without a recognized type has no content extracted,
\* the agent is not invoked for it, and the loop goes on to the next message.
C6_UnrecognizedDictSkipped ==
  \A k \in entered :
    LET v == ValueOf(k)
    IN (v.k = "dict" /\ ~Recognized(v))
       => /\ Extract(v) = Extracted(PyNone)
          /\ InvocationsOf(k) = {}
          /\ k \notin caught
          /\ ResumedAfter(k)

C6_Witness ==
  \E k \in entered :
    /\ ValueOf(k) = Envelope("system", Hi)
    /\ k < Cur
    /\ Cur \in entered

\* C7: a str message that is the JSON text of a recognized envelope with a
\* content field is extracted as the decoded dict is, and the agent is
\* invoked with what the decoded dict yields.
C7_JsonTextAsDecoded ==
  \A k \in entered :
    LET v == ValueOf(k)
        r == IF v.k = "str" THEN JsonLoads(v.s) ELSE ParseError
    IN (r.ok /\ r.v.k = "dict" /\ Recognized(r.v) /\ DictHas(r.v, KeyContent))
       => /\ Extract(v) = Extract(r.v)
          /\ ArgsOf(k) =
               IF Truthy(Extract(r.v).content)
               THEN {Extract(r.v).content} ELSE {}

C7_Witness ==
  \E k \in entered :
    /\ ValueOf(k) = PyStr(JsonDumps(Envelope("user", Hi)))
    /\ ArgsOf(k) = {Hi}

\* C8: a non-empty str message that is no JSON is its own content, and the
\* agent is invoked exactly once, with that text.
C8_PlainTextVerbatim ==
  \A k \in entered :
    LET v == ValueOf(k)
    IN (v.k = "str" /\ v.s # <<>> /\ ~JsonLoads(v.s).ok)
       => /\ Extract(v) = Extracted(v)
          /\ Cardinality(InvocationsOf(k)) = 1
          /\ ArgsOf(k) = {v}

C8_Witness ==
  \E k \in entered, j \in entered :
    /\ ValueOf(k) = PyStr(Word("hello")) /\ ArgsOf(k) = {PyStr(Word("hello"))}
    /\ ValueOf(j) = PyStr(<<Lex("{"), Lex("hi")>>)
    /\ ArgsOf(j) = {PyStr(<<Lex("{"), Lex("hi")>>)}

\* The payload is empty, or decodes to None or to an empty value.
EmptyPayload(m) ==
  \/ m = <<>>
  \/ /\ JsonLoads(m).ok
     /\ JsonLoads(m).v \in {PyNone, PyStr(<<>>), PyList(<<>>), PyDict(<<>>)}

\* C9: a message whose payload is empty, or decodes to None or to an empty
\* value, is delivered to the loop body and skipped: no agent invocation, no
\* per-message error, and the loop goes on to the next message.
C9_EmptySkipped ==
  \A k \in 1..Cur :
    EmptyPayload(delivered[k])
    => /\ k \in entered \/ (k = Cur /\ pc = "body")
       /\ InvocationsOf(k) = {}
       /\ k \notin caught
       /\ k \in entered => ResumedAfter(k)

C9_Witness ==
  \E k \in entered :
    /\ delivered[k] = <<>>
    /\ k < Cur
    /\ InvocationsOf(Cur) # {}

\* C10: messages are processed one at a time in delivery order: a message is
\* pulled only when no invocation is in flight, at most one invocation is in
\* flight, and the invocations follow the delivery order, each made with the
\* content of its own message.
C10_OneAtATime ==
  /\ inflight \in {0, 1}
  /\ inflight = 1 <=> pc = "invoke"
  /\ \A k \in 1..Cur : k < Cur => Done(k)
  /\ \A i \in 1..Len(invoked) :
       /\ invoked[i].idx \in 1..Cur
       /\ i > 1 => invoked[i - 1].idx < invoked[i].idx
       /\ invoked[i].arg = Extract(ValueOf(invoked[i].idx)).content

C10_Witness == Len(invoked) = 2 /\ pc = "invoke"

\* The exit of fast.run() raised, or main() was cancelled while it waited.
ExitFailed == runtime = "exit_failed"

InShutdown ==
  pc \in {"stop_consumer", "stop_producer", "exit_run", "returned", "raised"}

Interrupted ==
  loopEnd \in {"interrupt_wait", "interrupt_invoke", "cancel_wait", "cancel_invoke"}

\* The str value v and the dict its text parses to.
\* json.loads of each text a str value holds, computed once.
ParsedTexts == [t \in Texts |-> JsonLoads(t)]
TextOf(v) ==
  IF v.k # "str" THEN ParseError
  ELSE IF v.s \in Texts THEN ParsedTexts[v.s] ELSE JsonLoads(v.s)
IsMappingText(v) == TextOf(v).ok /\ TextOf(v).v.k = "dict"

\* C11: an error raised by consumer.stop() or producer.stop() in the shutdown
\* sequence does not leave main().
C11_StopFailureNotRaised == StopFailed => pc # "raised"

\* C12: an interrupt or a cancellation that arrives while the loop waits for
\* a message or for the agent is not taken by the per-message handler: the
\* loop is left for the finally block, no message is pulled any more, and
\* consumer.stop() and, when it returned, producer.stop() are called.
C12_InterruptReachesShutdown ==
  /\ [](Interrupted => InShutdown)
  /\ [][(Interrupted' /\ ~Interrupted)
          => (caught' = caught /\ pc' = "stop_consumer")]_vars
  /\ (Interrupted
        ~> (consumerStops = 1 /\ (consumer = "stopped" => producerStops = 1)))

C12_Witness ==
  /\ loopEnd = "cancel_invoke"
  /\ pc = "raised"
  /\ consumer = "stopped"
  /\ producer = "stopped"

\* C14: when the consumer or the producer fails to start, the error leaves
\* main(), no message is pulled and the agent is never invoked.
C14_StartFailureFatal ==
  (consumer = "failed" \/ producer = "failed")
  => (pc = "raised" /\ delivered = <<>> /\ invoked = <<>>)

C14_Witness == producer = "failed" /\ consumer = "started" /\ pc = "raised"

\* C15: at most one consumer handle and at most one producer handle is
\* started and not stopped.
C15_OneHandlePerRole ==
  /\ active.consumer \in {0, 1}
  /\ active.producer \in {0, 1}
  /\ active.consumer = 1 <=> consumer = "started"
  /\ active.producer = 1 <=> producer = "started"

C15_Witness == active = [consumer |-> 1, producer |-> 1] /\ pc = "invoke"

\* C17, as claimed: a str message whose text parses to a dict without a
\* recognized type is extracted as that dict is: no content, no invocation.
C17_UnrecognizedTextSkipped ==
  \A k \in entered :
    LET v == ValueOf(k)
    IN (IsMappingText(v) /\ ~Recognized(TextOf(v).v))
       => /\ Extract(v) = Extract(TextOf(v).v)
          /\ InvocationsOf(k) = {}

\* C17, amended: a str message whose text parses to a dict is extracted as
\* that dict is when the dict has a recognized type and a content entry; when
\* the dict has no recognized type, the text itself is the content and the
\* agent is invoked with it.
C17_UnrecognizedTextForwarded ==
  \A k \in entered :
    LET v == ValueOf(k)
    IN /\ (IsMappingText(v) /\ Recognized(TextOf(v).v)
             /\ DictHas(TextOf(v).v, KeyContent))
          => Extract(v) = Extract(TextOf(v).v)
       /\ (IsMappingText(v) /\ ~Recognized(TextOf(v).v))
          => /\ Extract(v) = Extracted(v)
             /\ Cardinality(InvocationsOf(k)) = 1
             /\ ArgsOf(k) = {v}

C17_Witness ==
  \E k \in entered :
    /\ ValueOf(k) = PyStr(JsonDumps(Envelope("system", Hi)))
    /\ ArgsOf(k) = {PyStr(JsonDumps(Envelope("system", Hi)))}
    /\ Done(k)

\* C18: a non-empty str message whose text is no JSON object (no JSON at
\* all, or JSON of a number, an array or a string) is its own content: the
\* extraction raises no error and the agent is invoked with the text.
C18_NonMappingTextVerbatim ==
  \A k \in entered :
    LET v == ValueOf(k)
    IN (v.k = "str" /\ v.s # <<>> /\ ~IsMappingText(v))
       => /\ Extract(v) = Extracted(v)
          /\ ArgsOf(k) = {v}

C13_TokenPerCall ==
  /\ signerCalls =
       Cardinality({i \in 1..Len(tokenCalls) : tokenCalls[i].phase # "in_executor"})
  /\ \A i \in 1..Len(tokenCalls) :
       /\ tokenCalls[i].signed = IF tokenCalls[i].phase = "in_executor" THEN 0 ELSE 1
       /\ tokenCalls[i].phase = "returned"
          => tokenCalls[i].result = tokenCalls[i].outcome

\* C13, amended: every call of token() runs the signer at most once, and a
\* call that ends without being cancelled ran it exactly once and returns that
\* run's token or raises that run's error; a cancelled call raises
\* CancelledError and hands out no token; no token is handed out by two calls;
\* the signer runs once per call that reached it, with no retry.
C13_TokenPerUncancelledCall ==
  /\ signerCalls =
       Cardinality({i \in 1..Len(tokenCalls) : tokenCalls[i].signed = 1})
  /\ \A i \in 1..Len(tokenCalls) :
       /\ tokenCalls[i].signed \in {0, 1}
       /\ tokenCalls[i].signed = 0 <=> tokenCalls[i].outcome = NoToken
       /\ tokenCalls[i].phase = "in_executor" => tokenCalls[i].signed = 0
       /\ tokenCalls[i].phase = "signed" => tokenCalls[i].signed = 1
       /\ tokenCalls[i].phase = "returned" <=> tokenCalls[i].result # NoToken
       /\ (tokenCalls[i].phase = "returned" /\ tokenCalls[i].result # Cancelled)
          => /\ tokenCalls[i].signed = 1
             /\ tokenCalls[i].result = tokenCalls[i].outcome
       /\ tokenCalls[i].result.t = "token"
          => \A j \in 1..Len(tokenCalls) :
               j # i => tokenCalls[j].result # tokenCalls[i].result

C13_Witness ==
  /\ Len(tokenCalls) = 3
  /\ \A i \in 1..3 : tokenCalls[i].by = "consumer"
  /\ tokenCalls[1].result = Token(1)
  /\ tokenCalls[2].result = Cancelled /\ tokenCalls[2].signed = 0
  /\ tokenCalls[3].result = SignerError
  /\ signerCalls = 2

\* C16: every context create_ssl_context() returns (one for the consumer,
\* one for the producer) accepts TLS 1.2 and later
\* only, has the hostname check and the certificate verification off and the
\* default certificates loaded; all contexts it returns have the same
\* settings.
C16_SslContextSettings ==
  \A i \in 1..Len(contexts) :
    /\ contexts[i].error = "none"
    /\ Permitted(contexts[i]) = {"TLSv1_2", "TLSv1_3"}
    /\ contexts[i].check_hostname = FALSE
    /\ contexts[i].verify_mode = "CERT_NONE"
    /\ contexts[i].default_certs = TRUE
    /\ \A j \in 1..Len(contexts) : contexts[j] = contexts[i]

C16_Witness ==
  /\ Len(contexts) = 2
  /\ consumer = "started"
  /\ producer = "started"

\* Call i of get_settings passes a json_config.
WithJson(i) == getCalls[i].json # PyNone

\* C20: a call of get_settings with a json_config leaves the cache as it
\* was and returns a new Settings object holding that json_config, whatever
\* the cache holds; a call with no argument made after such calls returns the
\* object that was cached before them.
C20_JsonConfigBypassesCache ==
  \A i \in 1..Len(getCalls) :
    WithJson(i) =>
      /\ getCalls[i].after = getCalls[i].before
      /\ ~getCalls[i].raised =>
           /\ getCalls[i].result.fields = getCalls[i].json
           /\ getCalls[i].result # getCalls[i].before
           /\ \A j \in 1..(i - 1) : getCalls[j].result.id # getCalls[i].result.id
      /\ \A j \in (i + 1)..Len(getCalls) :
           ( /\ \A m \in i..(j - 1) : WithJson(m)
             /\ getCalls[j].json = PyNone
             /\ getCalls[j].path = PyNone
             /\ getCalls[i].before # NoSettings )
           => getCalls[j].result = getCalls[i].before

C20_Witness ==
  /\ Len(getCalls) = 3
  /\ getCalls[1].path = PyStr(RelPath)
  /\ getCalls[1].result.fields = deep_merge(CfgOpenai, CfgSecrets)
  /\ getCalls[2].json = CfgModel
  /\ getCalls[2].result = NewSettings(2, CfgModel)
  /\ getCalls[3].json = PyNone
  /\ getCalls[3].path = PyNone
  /\ getCalls[3].result = getCalls[1].result

\* Call i of get_settings passes a config_path that counts as one (a
\* non-empty string).
WithPath(i) == Truthy(getCalls[i].path)

\* Call i returned an object that no earlier call returned and that was not
\* the cached one.
Fresh(i) ==
  /\ getCalls[i].result # NoSettings
  /\ getCalls[i].result # getCalls[i].before
  /\ \A j \in 1..(i - 1) : getCalls[j].result.id # getCalls[i].result.id

\* The calls without json_config that built settings, and those that raised.
Builders == {i \in 1..Len(getCalls) : ~WithJson(i) /\ ~getCalls[i].raised /\ Fresh(i)}
Raisers == {i \in 1..Len(getCalls) : ~WithJson(i) /\ getCalls[i].raised}
Latest(S) == CHOOSE i \in S : \A j \in S : j <= i

\* The history is the history of the cache.
CacheChain ==
  /\ \A i \in 1..Len(getCalls) :
       getCalls[i].before = IF i = 1 THEN NoSettings ELSE getCalls[i - 1].after
  /\ settingsCache = IF getCalls = <<>> THEN NoSettings
                     ELSE getCalls[Len(getCalls)].after

\* C21 as stated: without json_config, a call with a config_path always
\* builds a new object and caches it; a call without one returns the cached
\* object when there is one and otherwise builds and caches; the cache holds
\* what the latest building call returned.
C21_CacheRules ==
  /\ CacheChain
  /\ \A i \in 1..Len(getCalls) :
       ~WithJson(i) =>
         IF WithPath(i) \/ getCalls[i].before = NoSettings
         THEN Fresh(i) /\ getCalls[i].after = getCalls[i].result
         ELSE /\ getCalls[i].result = getCalls[i].before
              /\ getCalls[i].after = getCalls[i].before
  /\ Builders # {} => settingsCache = getCalls[Latest(Builders)].result

\* C21, amended: the same rules for the calls that do not raise; a call that
\* raises (it had a config_path or found the cache empty) leaves the cache
\* empty; the cache holds what the latest building call returned unless a
\* later call raised, and then it is empty.
C21_CacheRulesUnlessRaised ==
  /\ CacheChain
  /\ \A i \in 1..Len(getCalls) :
       ~WithJson(i) =>
         IF WithPath(i) \/ getCalls[i].before = NoSettings
         THEN IF getCalls[i].raised
              THEN getCalls[i].after = NoSettings /\ getCalls[i].result = NoSettings
              ELSE Fresh(i) /\ getCalls[i].after = getCalls[i].result
         ELSE /\ ~getCalls[i].raised
              /\ getCalls[i].result = getCalls[i].before
              /\ getCalls[i].after = getCalls[i].before
  /\ settingsCache =
       IF Builders \cup Raisers = {} THEN NoSettings
       ELSE IF Latest(Builders \cup Raisers) \in Raisers THEN NoSettings
       ELSE getCalls[Latest(Builders)].result

C21_Witness ==
  /\ Len(getCalls) = 3
  /\ \A i \in 1..3 : ~WithJson(i)
  /\ WithPath(1) /\ getCalls[1].result = NewSettings(1, deep_merge(CfgOpenai, CfgSecrets))
  /\ WithPath(2) /\ getCalls[2].raised /\ getCalls[2].before = getCalls[1].result
  /\ getCalls[3].path = PyNone /\ getCalls[3].result = NewSettings(2, CfgEmpty)
  /\ settingsCache = getCalls[3].result

\* C22: the producer is only started and stopped.  Whatever is delivered and
\* however each agent invocation ends, nothing is published on the producer;
\* a response the agent returns is logged, and only responses are logged.
C22_NoPublish ==
  /\ published = <<>>
  /\ logged \subseteq {invoked[i].idx : i \in 1..Len(invoked)}
  /\ logged \cap caught = {}
  /\ \A i \in 1..Len(invoked) :
       (invoked[i].idx < Cur \/ pc \in {"next_message", "returned"})
       /\ invoked[i].idx \notin caught
       /\ ~(invoked[i].idx = Cur /\ Interrupted)
       => invoked[i].idx \in logged

C22_Witness ==
  /\ pc = "returned"
  /\ producer = "stopped"
  /\ producerStops = 1
  /\ Cur = 2
  /\ logged = {1}
  /\ caught = {2}
  /\ Len(invoked) = 2
  /\ published = <<>>

\* The keys of a dict value.
KeysOf(d) == {d.items[i].key : i \in 1..Len(d.items)}

\* C23: deep_merge(base, update) returns a dict with the keys of both; a key
\* of update holds update's value, or the merge of the two values when both
\* are dicts; a key of base alone keeps base's value; no object that existed
\* before a call is changed by it; merging update into the result again
\* gives an equal dict.
C23_DeepMerge ==
  \A i \in 1..Len(mergeCalls) :
    LET c == mergeCalls[i]
        base == Deref(c.before, c.base)
        update == Deref(c.before, c.update)
        result == Deref(heap, c.ref)
    IN /\ KeysOf(result) = KeysOf(base) \cup KeysOf(update)
       /\ \A key \in KeysOf(update) :
            DictGet(result, key) =
              IF key \in KeysOf(base) /\ DictGet(base, key).k = "dict"
                 /\ DictGet(update, key).k = "dict"
              THEN deep_merge(DictGet(base, key), DictGet(update, key))
              ELSE DictGet(update, key)
       /\ \A key \in KeysOf(base) \ KeysOf(update) :
            DictGet(result, key) = DictGet(base, key)
       /\ result = deep_merge(base, update)
       /\ c.ref > Len(c.before)
       /\ \A id \in 1..Len(c.before) : heap[id] = c.before[id]
       /\ \A j \in 1..(i - 1) :
            (c.base = mergeCalls[j].ref /\ c.update = mergeCalls[j].update)
            => result = Deref(heap, mergeCalls[j].ref)

C23_Witness ==
  /\ Len(mergeCalls) = 2
  /\ mergeCalls[2].base = mergeCalls[1].ref
  /\ Deref(heap, mergeCalls[1].base) =
       PyDict(<<Item(KeyX, PyDict(<<Item(KeyX, PyInt(1))>>)), Item(KeyY, PyInt(1))>>)
  /\ Deref(heap, mergeCalls[1].update) =
       PyDict(<<Item(KeyX, PyDict(<<Item(KeyY, PyInt(2))>>))>>)
  /\ Deref(heap, mergeCalls[2].ref) =
       PyDict(<<Item(KeyX, PyDict(<<Item(KeyX, PyInt(1)), Item(KeyY, PyInt(2))>>)),
                Item(KeyY, PyInt(1))>>)
====
